---- MODULE Spec2Model ----
(***************************************************************************)
(* Access-key lifecycle of streamlit_key_gate.py: issuance, verification   *)
(* with usage marking, and the administrator's revoke / reinstate / delete *)
(* over the SQLite table access_keys.  Every Streamlit session runs its    *)
(* script in its own thread and every helper opens its own connection, so  *)
(* the helpers are modelled as processes whose SQL statements interleave.  *)
(***************************************************************************)
EXTENDS Integers, Sequences, FiniteSets, TLC

(***************************************************************************)
(* Bounds of the model.                                                    *)
(***************************************************************************)
NumProcs == 2      \* concurrent script runs (sessions)
NumKeys == 2       \* distinct outcomes of the random source
MaxSeq == 2        \* rows ever inserted (AUTOINCREMENT values handed out)
MaxCount == 2      \* largest "count" of one issue call
MaxDays == 1       \* largest "days" of one issue call
MaxTime == 2       \* last reading of the clock
MaxCalls == 5      \* calls served in one behaviour, one at a time
MaxRaceCalls == 3  \* calls served in one behaviour of concurrent script runs
TicksPerDay == 1   \* clock ticks in one day
MaxStride == 3     \* largest step between the symbols of one generated key

Procs == 1..NumProcs

(***************************************************************************)
(* Python values.  A str is a sequence of one-character strings; an        *)
(* Optional value is None or Some(v); a datetime is a number of ticks.     *)
(***************************************************************************)
None == <<>>
Some(v) == <<v>>
Val(o) == o[1]

\* alphabet of _generate_readable_key (line 268)
alphabet_all ==
  << "A", "B", "C", "D", "E", "F", "G", "H", "I", "J", "K", "L", "M", "N", "O", "P",
     "Q", "R", "S", "T", "U", "V", "W", "X", "Y", "Z", "0", "1", "2", "3", "4", "5",
     "6", "7", "8", "9" >>
alphabet ==
  << "A", "B", "C", "D", "E", "F", "G", "H", "J", "K", "L", "M", "N", "P", "Q", "R",
     "S", "T", "U", "V", "W", "X", "Y", "Z", "2", "3", "4", "5", "6", "7", "8", "9" >>

\* code points of the characters of alphabet, in the same order
alphabetOrd ==
  << 65, 66, 67, 68, 69, 70, 71, 72, 74, 75, 76, 77, 78, 80, 81, 82,
     83, 84, 85, 86, 87, 88, 89, 90, 50, 51, 52, 53, 54, 55, 56, 57 >>

\* the separator of the hint, U+2026, as one character
Ellipsis == "..."

Ord(c) ==
  IF c = "-" THEN 45
  ELSE IF c = " " THEN 32
  ELSE IF c = Ellipsis THEN 8230
  ELSE alphabetOrd[CHOOSE k \in 1..Len(alphabet) : alphabet[k] = c]

\* one outcome of the sixteen secrets.choice draws: indexes into alphabet
Draw(c) == [i \in 1..16 |-> c]
Draws == { Draw(c) : c \in 1..NumKeys }

\* _generate_readable_key: four parts of four drawn characters, "-".join
generate_readable_key(draw) ==
  LET part(g) == [j \in 1..4 |-> alphabet[draw[(g - 1) * 4 + j]]]
  IN  part(1) \o <<"-">> \o part(2) \o <<"-">> \o part(3) \o <<"-">> \o part(4)

HexDigits ==
  << "0", "1", "2", "3", "4", "5", "6", "7", "8", "9", "a", "b", "c", "d", "e", "f" >>

RECURSIVE Digest(_, _)
Digest(s, acc) ==
  IF s = <<>> THEN acc
  ELSE Digest(Tail(s), (acc * 31 + Ord(Head(s))) % 65521)

RECURSIVE HexDigest(_, _)
HexDigest(n, width) ==
  IF width = 0 THEN <<>>
  ELSE HexDigest(n \div 16, width - 1) \o << HexDigits[(n % 16) + 1] >>

\* _hash_key: a one-way digest of the encoded key, as lower-case hex digits
hash_key_leak(raw_key) == raw_key
hash_key_weak(raw_key) == HexDigest(Len(raw_key), 4)
hash_key(raw_key) == HexDigest(Digest(raw_key, 7), 4)

\* hint = raw[:3] + U+2026 + raw[-3:]  (line 210)
Hint(raw) ==
  SubSeq(raw, 1, 3) \o <<Ellipsis>> \o SubSeq(raw, Len(raw) - 2, Len(raw))

\* str.strip() of the annotations (lines 220-221)
RECURSIVE LStrip(_)
LStrip(s) == IF s # <<>> /\ Head(s) = " " THEN LStrip(Tail(s)) ELSE s
RECURSIVE RStrip(_)
RStrip(s) ==
  IF s # <<>> /\ s[Len(s)] = " " THEN RStrip(SubSeq(s, 1, Len(s) - 1)) ELSE s
Strip(s) == RStrip(LStrip(s))
StripOrNone(s) == IF Strip(s) = <<>> THEN None ELSE Some(Strip(s))

\* sqlite3's datetime adapter writes "date time"; the TIMESTAMP converter of
\* PARSE_DECLTYPES reads the two parts back
AdaptDatetime(dt) == << dt \div TicksPerDay, dt % TicksPerDay >>
ConvertTimestamp(ts) == ts[1] * TicksPerDay + ts[2]
AdaptOptional(o) == IF o = None THEN None ELSE Some(AdaptDatetime(Val(o)))

\* timedelta(days=int(days))
Timedelta(days) == days * TicksPerDay

(***************************************************************************)
(* Return values.  The user-facing messages are named by their meaning.    *)
(***************************************************************************)
MsgEmpty == "EmptyInput"             \* line 93
MsgInvalid == "InvalidCredential"    \* line 102
MsgRevoked == "Revoked"              \* line 107
MsgExpired == "Expired"              \* line 115
MsgUsed == "AlreadyUsed"             \* line 125
MsgOK == "OK"                        \* line 127
MsgNotFound == "NotFound"            \* line 249
MsgUnknown == "UnknownAction"        \* line 258
MsgApplied == "OK: applied"          \* line 261

ActRevoke == "revoke"                \* line 251
ActReinstate == "reinstate"          \* line 253
ActDelete == "delete"                \* line 255
Actions == {ActRevoke, ActReinstate, ActDelete}

\* what the administrator types in
Annotations == { [tag |-> <<" ", "A", "B", " ">>, issued_to |-> <<" ">>] }

(***************************************************************************)
(* State.                                                                  *)
(*   access_keys      committed rows of the table (lines 27-39)            *)
(*   sqlite_sequence  largest id AUTOINCREMENT has handed out (line 28)    *)
(*   writer           the connection holding SQLite's write lock, or 0     *)
(*   pending          rows inserted by the writer and not yet committed    *)
(*   now              the latest reading of the clock by _now()            *)
(*   pc, loc          per script run: position and locals of its call      *)
(*   ret              the call that returned in the last step, if any      *)
(*   audit            history, by id, of every row ever inserted: its key, *)
(*                    its Accepted results, the administrator's actions    *)
(*   calls            history: the number of calls started                 *)
(*   session_state    st.session_state of the session of each script run   *)
(***************************************************************************)
VARIABLES access_keys, sqlite_sequence, writer, pending, now, pc, loc, ret, audit,
          calls, session_state

vars == << access_keys, sqlite_sequence, writer, pending, now, pc, loc, ret, audit,
          calls, session_state >>

NoProc == 0

\* SELECT ... WHERE key_hash=? ; fetchone()  (lines 98-99)
FindByHash(rows, h) ==
  IF \E r \in rows : r.key_hash = h
  THEN Some(CHOOSE r \in rows : r.key_hash = h)
  ELSE None

\* SELECT id ... WHERE id=? ; fetchone()  (lines 247-248)
FindByIdAnyRow(rows, id) ==
  IF rows = {} THEN None ELSE Some(CHOOSE r \in rows : TRUE)
FindById(rows, id) ==
  IF \E r \in rows : r.id = id
  THEN Some(CHOOSE r \in rows : r.id = id)
  ELSE None

\* the columns verification selects, expires_at through the converter (line 104)
SelectedColumns(r) ==
  [ key_id |-> r.id,
    is_one_time |-> r.is_one_time,
    expires_at |-> IF r.expires_at = None THEN None
                   ELSE Some(ConvertTimestamp(Val(r.expires_at))),
    used_count |-> r.used_count,
    is_revoked |-> r.is_revoked ]

\* if is_revoked  (line 106)
IsRevokedIgnored(is_revoked) == FALSE
IsRevoked(is_revoked) == is_revoked # 0

\* exp_dt and _now() > exp_dt  (line 114)
IsExpiredInclusive(t, exp_dt) == t >= exp_dt
IsExpired(t, exp_dt) == t > exp_dt

\* is_one_time and used_count >= 1  (line 124)
OneTimeExhaustedLate(is_one_time, used_count) == is_one_time # 0 /\ used_count > 1
OneTimeExhaustedAny(is_one_time, used_count) == used_count >= 1
OneTimeExhausted(is_one_time, used_count) == is_one_time # 0 /\ used_count >= 1

\* UPDATE access_keys SET used_count = used_count + 1, last_used_at = ?
\* WHERE id = ?  (lines 118-121)
MarkUsagePurge(rows, key_id, t) ==
  { [r EXCEPT !.used_count = @ + 1, !.last_used_at = Some(AdaptDatetime(t))] :
      r \in { x \in rows : x.id = key_id /\ x.is_one_time = 0 } }
  \cup { r \in rows : r.id # key_id }
MarkUsageCountOnly(rows, key_id, t) ==
  { IF r.id = key_id THEN [r EXCEPT !.used_count = @ + 1] ELSE r : r \in rows }
MarkUsageAllRows(rows, key_id, t) ==
  { [r EXCEPT !.used_count = @ + 1, !.last_used_at = Some(AdaptDatetime(t))] :
      r \in rows }
MarkUsageFlag(rows, key_id, t) ==
  { IF r.id = key_id
    THEN [r EXCEPT !.used_count = 1, !.last_used_at = Some(AdaptDatetime(t))]
    ELSE r : r \in rows }
MarkUsage(rows, key_id, t) ==
  { IF r.id = key_id
    THEN [r EXCEPT !.used_count = @ + 1, !.last_used_at = Some(AdaptDatetime(t))]
    ELSE r : r \in rows }

\* history: the keys issued so far, those of deleted rows, those of rows
\* that exist (inserted and not deleted)
IssuedKeys == { audit[i].raw : i \in DOMAIN audit }
DeletedKeys == { audit[i].raw : i \in { j \in DOMAIN audit : audit[j].deleted } }
LiveKeys == { audit[i].raw : i \in { j \in DOMAIN audit : ~audit[j].deleted } }

\* The code treats keys as opaque, so the outcomes of the random source are
\* interchangeable: they are numbered in the order they first come up, and a
\* caller presents a key that came up or one that has not.
\* history: the keys of the rows a connection can see
StoredKeys == { audit[r.id].raw : r \in access_keys \cup pending }

KnownDraws == { Draw(c) : c \in 1..(IF Cardinality(IssuedKeys) < NumKeys
                                    THEN Cardinality(IssuedKeys) + 1
                                    ELSE NumKeys) }
KnownKeyInputs == {<<>>} \cup { generate_readable_key(d) : d \in KnownDraws }

NoCall == [op |-> "none"]

Init ==
  /\ access_keys = {}
  /\ sqlite_sequence = 0
  /\ writer = NoProc
  /\ pending = {}
  /\ now = 0
  /\ pc = [p \in Procs |-> "idle"]
  /\ loc = [p \in Procs |-> NoCall]
  /\ ret = NoCall
  /\ audit = <<>>
  /\ calls = 0
  /\ session_state = [p \in Procs |-> [is_authenticated |-> FALSE]]

\* the call of p returns value; its locals are gone
Return(p, locals, value) ==
  /\ pc' = [pc EXCEPT ![p] = "idle"]
  /\ loc' = [loc EXCEPT ![p] = NoCall]
  /\ ret' = [op |-> locals.op, proc |-> p, call |-> locals, value |-> value]

\* the call of p goes on at position next
Goto(p, locals, next) ==
  /\ pc' = [pc EXCEPT ![p] = next]
  /\ loc' = [loc EXCEPT ![p] = locals]
  /\ ret' = NoCall

\* _now(): the clock stands at t, not earlier than its latest reading
Now(t) ==
  /\ t \in now..MaxTime
  /\ now' = t

\* a call starts: an idle script run, within the bound on calls.  Idle script
\* runs of sessions in the same state are interchangeable: the first of them
\* starts.
Start(p) ==
  /\ pc[p] = "idle"
  /\ \A q \in Procs : q < p => pc[q] # "idle" \/ session_state[q] # session_state[p]
  /\ calls < MaxCalls
  /\ calls' = calls + 1

VerifyResult(ok, msg) == [ok |-> ok, msg |-> msg]

(***************************************************************************)
(* _verify_and_mark_usage (lines 91-127), statement by statement.          *)
(***************************************************************************)
\* lines 92-107: the empty check, the SELECT, the missing and revoked checks
verify_and_mark_usage_select(p, raw_key) ==
  /\ Start(p)
  /\ LET h == hash_key(raw_key)
         found == IF raw_key = <<>> THEN None ELSE FindByHash(access_keys, h)
         row == IF found = None THEN None ELSE Some(SelectedColumns(Val(found)))
         locals == [ op |-> "verify", raw_key |-> raw_key, row |-> row,
                     \* history, for the properties only
                     at |-> now,
                     used_at |-> None,
                     pre |-> access_keys,
                     issued |-> raw_key \in IssuedKeys,
                     deleted |-> raw_key \in DeletedKeys,
                     live |-> raw_key \in LiveKeys,
                     hist |-> audit ]
     IN  IF raw_key = <<>>
         THEN Return(p, locals, VerifyResult(FALSE, MsgEmpty))
         ELSE IF row = None
         THEN Return(p, locals, VerifyResult(FALSE, MsgInvalid))
         ELSE IF IsRevoked(Val(row).is_revoked)
         THEN Return(p, locals, VerifyResult(FALSE, MsgRevoked))
         ELSE IF Val(row).expires_at # None
         THEN Goto(p, locals, "verify_expiry")
         ELSE Goto(p, locals, "verify_update")
  /\ UNCHANGED << access_keys, sqlite_sequence, writer, pending, now, audit >>

\* lines 109-115: the expiry check against a fresh _now()
verify_and_mark_usage_expiry(p, t) ==
  /\ pc[p] = "verify_expiry"
  /\ Now(t)
  /\ LET locals == [loc[p] EXCEPT !.at = t]
     IN  IF IsExpired(t, Val(Val(loc[p].row).expires_at))
         THEN Return(p, locals, VerifyResult(FALSE, MsgExpired))
         ELSE Goto(p, locals, "verify_update")
  /\ UNCHANGED << calls, access_keys, sqlite_sequence, writer, pending, audit >>

\* lines 117-127: the UPDATE, the commit and the one-time check on the
\* used_count read by the SELECT
verify_and_mark_usage_update(p, t) ==
  /\ pc[p] = "verify_update"
  /\ writer = NoProc
  /\ Now(t)
  /\ LET row == Val(loc[p].row)
         ok == ~OneTimeExhausted(row.is_one_time, row.used_count)
     IN  /\ access_keys' = MarkUsage(access_keys, row.key_id, t)
         /\ Return(p, [loc[p] EXCEPT !.used_at = Some(t)],
                   VerifyResult(ok, IF ok THEN MsgOK ELSE MsgUsed))
         /\ audit' = [audit EXCEPT ![row.key_id] =
                              [@ EXCEPT !.passed = @ + 1,
                                        !.accepted = IF ok THEN @ + 1 ELSE @]]
  /\ UNCHANGED << calls, sqlite_sequence, writer, pending >>

(***************************************************************************)
(* _operate_key (lines 244-261).                                           *)
(***************************************************************************)
\* the UPDATE or DELETE chosen by action (lines 251-256)
ApplyActionSoftDelete(rows, target_id, action) ==
  IF action = ActReinstate
  THEN { IF r.id = target_id THEN [r EXCEPT !.is_revoked = 0] ELSE r : r \in rows }
  ELSE { IF r.id = target_id THEN [r EXCEPT !.is_revoked = 1] ELSE r : r \in rows }
ApplyActionNoRevoke(rows, target_id, action) ==
  IF action = ActDelete
  THEN { r \in rows : r.id # target_id }
  ELSE { IF r.id = target_id THEN [r EXCEPT !.is_revoked = 0] ELSE r : r \in rows }
ApplyActionToggle(rows, target_id, action) ==
  IF action = ActDelete
  THEN { r \in rows : r.id # target_id }
  ELSE { IF r.id = target_id THEN [r EXCEPT !.is_revoked = 1 - @] ELSE r : r \in rows }
ApplyActionResetCount(rows, target_id, action) ==
  IF action = ActRevoke
  THEN { IF r.id = target_id THEN [r EXCEPT !.is_revoked = 1] ELSE r : r \in rows }
  ELSE IF action = ActReinstate
  THEN { IF r.id = target_id THEN [r EXCEPT !.is_revoked = 0, !.used_count = 0]
         ELSE r : r \in rows }
  ELSE { r \in rows : r.id # target_id }
ApplyAction(rows, target_id, action) ==
  IF action = ActRevoke
  THEN { IF r.id = target_id THEN [r EXCEPT !.is_revoked = 1] ELSE r : r \in rows }
  ELSE IF action = ActReinstate
  THEN { IF r.id = target_id THEN [r EXCEPT !.is_revoked = 0] ELSE r : r \in rows }
  ELSE IF action = ActDelete
  THEN { r \in rows : r.id # target_id }
  ELSE rows

\* lines 245-249: the existence check
operate_key_select(p, target_id, action) ==
  /\ Start(p)
  /\ LET locals == [ op |-> "operate", target_id |-> target_id, action |-> action,
                     \* history, for the properties only
                     pre |-> {},
                     prev |-> IF /\ ret.op = "operate"
                                 /\ ret.value = MsgApplied
                                 /\ ret.call.action # ActDelete
                              THEN Some([ action |-> ret.call.action,
                                          target_id |-> ret.call.target_id,
                                          pre |-> ret.call.pre ])
                              ELSE None ]
     IN  IF FindById(access_keys, target_id) = None
         THEN Return(p, locals, MsgNotFound)
         ELSE Goto(p, locals, "operate_apply")
  /\ UNCHANGED << access_keys, sqlite_sequence, writer, pending, now, audit >>
  /\ UNCHANGED session_state

\* lines 251-261: the statement of the action, the commit, the OK message
operate_key_apply(p) ==
  /\ pc[p] = "operate_apply"
  /\ LET id == loc[p].target_id
         action == loc[p].action
     IN  IF action \notin Actions
         THEN /\ Return(p, loc[p], MsgUnknown)
              /\ UNCHANGED << access_keys, audit >>
         ELSE /\ writer = NoProc
              /\ access_keys' = ApplyAction(access_keys, id, action)
              /\ Return(p, [loc[p] EXCEPT !.pre = access_keys], MsgApplied)
              /\ audit' = IF action = ActDelete
                          THEN [audit EXCEPT ![id].deleted = TRUE]
                          ELSE IF action = ActRevoke
                          THEN [audit EXCEPT ![id].admin = ActRevoke]
                          ELSE IF audit[id].admin = ActRevoke
                          THEN [audit EXCEPT ![id].admin = ActReinstate]
                          ELSE audit
  /\ UNCHANGED << calls, sqlite_sequence, writer, pending, now >>
  /\ UNCHANGED session_state

(***************************************************************************)
(* _issue_keys (lines 197-241).                                            *)
(***************************************************************************)
\* the row an INSERT creates: the bound columns and the DEFAULTs of the schema
NewRow(id, h, hint, issued_to, tag, is_one_time, issued_at, expires_at) ==
  [ id |-> id,
    key_hash |-> h,
    raw_hint |-> hint,
    issued_to |-> StripOrNone(issued_to),
    tag |-> StripOrNone(tag),
    is_one_time |-> IF is_one_time THEN 1 ELSE 0,
    issued_at |-> Some(AdaptDatetime(issued_at)),
    expires_at |-> AdaptOptional(expires_at),
    used_count |-> 0,
    last_used_at |-> None,
    is_revoked |-> 0 ]

\* key_hash TEXT UNIQUE: the INSERT raises IntegrityError on a known hash
ViolatesUniqueNever(rows, h) == FALSE
ViolatesUnique(rows, h) == \E r \in rows : r.key_hash = h

\* rows.append(...) of a unit, skipped by the "continue" of the handler
ReportUnitAlways(rows, entry, inserted) == Append(rows, entry)
ReportUnit(rows, entry, inserted) == IF inserted THEN Append(rows, entry) ELSE rows

\* id INTEGER PRIMARY KEY AUTOINCREMENT (line 28): one more than the largest
\* id the table has ever held, which sqlite_sequence remembers; without the
\* keyword SQLite takes one more than the largest id the table holds now
MaxId(rows) == IF rows = {} THEN 0 ELSE CHOOSE i \in { r.id : r \in rows } :
                                           \A r \in rows : r.id <= i
RowidOnly(seq, rows) == MaxId(rows) + 1
Autoincrement(seq, rows) == (IF seq >= MaxId(rows) THEN seq ELSE MaxId(rows)) + 1

\* lines 203-205: no expiry unless days > 0
ExpiresAtAlways(days, t) == Some(t + Timedelta(days))
ExpiresAt(days, t) == IF days > 0 THEN Some(t + Timedelta(days)) ELSE None

\* for _ in range(int(count)): "continue" goes on with the next unit (lines
\* 207, 227-229)
UnitsLeftRetry(remaining, inserted) == IF inserted THEN remaining - 1 ELSE remaining
UnitsLeft(remaining, inserted) == remaining - 1

\* units that issue calls in flight have yet to run
Reserved ==
  LET running == { q \in Procs : pc[q] = "issue_loop" }
      RECURSIVE Sum(_)
      Sum(S) == IF S = {} THEN 0
                ELSE LET q == CHOOSE x \in S : TRUE
                     IN  loc[q].remaining + Sum(S \ {q})
  IN  Sum(running)

\* lines 199-205: expires_at, computed once for the batch
issue_keys_begin(p, count, days, is_one_time, note, t) ==
  /\ Start(p)
  /\ IF days > 0 THEN Now(t) ELSE t = now /\ UNCHANGED now
  /\ Len(audit) + Reserved < MaxSeq
  /\ Goto(p, [ op |-> "issue", count |-> count, days |-> days,
                is_one_time |-> is_one_time,
                tag |-> note.tag, issued_to |-> note.issued_to,
                expires_at |-> ExpiresAt(days, t),
                remaining |-> count, rows |-> <<>>,
                \* history, for the properties only
                start |-> IF days > 0 THEN Some(t) ELSE None,
                drawn |-> None,
                added |-> 0 ],
          "issue_loop")
  /\ UNCHANGED << access_keys, sqlite_sequence, writer, pending, audit >>
  /\ UNCHANGED session_state

\* lines 207-237: one turn of the loop, inside the connection's transaction
issue_keys_unit(p, draw, t) ==
  /\ pc[p] = "issue_loop"
  /\ loc[p].remaining > 0
  /\ writer \in {NoProc, p}
  /\ Now(t)
  /\ LET l == loc[p]
         raw == generate_readable_key(draw)
         h == hash_key(raw)
         hint == Hint(raw)
         inserted == ~ViolatesUnique(access_keys \cup pending, h)
         id == Autoincrement(sqlite_sequence, access_keys \cup pending)
         entry == [ access_key |-> raw, hint |-> hint, issued_to |-> l.issued_to,
                    tag |-> l.tag, is_one_time |-> l.is_one_time,
                    expires_at |-> AdaptOptional(l.expires_at) ]
     IN  /\ inserted => Len(audit) < MaxSeq
         /\ writer' = p
         /\ pending' = IF inserted
                       THEN pending \cup
                            { NewRow(id, h, hint, l.issued_to, l.tag, l.is_one_time,
                                     t, l.expires_at) }
                       ELSE pending
         /\ audit' = IF inserted
                     THEN Append(audit, [ raw |-> raw, one_time |-> l.is_one_time,
                                          expires |-> l.expires_at, accepted |-> 0,
                                          passed |-> 0,
                                          admin |-> "none", deleted |-> FALSE,
                                          id |-> id, days |-> l.days,
                                          start |-> l.start ])
                     ELSE audit
         /\ Goto(p, [l EXCEPT !.remaining = UnitsLeft(@, inserted),
                              !.rows = ReportUnit(@, entry, inserted),
                              !.drawn = IF raw \in StoredKeys THEN Some(raw)
                                        ELSE None],
                 "issue_loop")
  /\ UNCHANGED << calls, access_keys, sqlite_sequence >>
  /\ UNCHANGED session_state

\* lines 239-241: the commit and the returned table
issue_keys_commit(p) ==
  /\ pc[p] = "issue_loop"
  /\ loc[p].remaining = 0
  /\ writer = p
  /\ access_keys' = access_keys \cup pending
  /\ sqlite_sequence' = sqlite_sequence + Cardinality(pending)
  /\ pending' = {}
  /\ writer' = NoProc
  /\ Return(p, [loc[p] EXCEPT !.added = Cardinality(access_keys') -
                                         Cardinality(access_keys)],
            loc[p].rows)
  /\ UNCHANGED << calls, now, audit >>
  /\ UNCHANGED session_state

(***************************************************************************)
(* The listing of admin_panel (lines 173-174).                             *)
(***************************************************************************)
\* the columns of the listing: every column but key_hash
ListedColumns(r) ==
  [ id |-> r.id, raw_hint |-> r.raw_hint, issued_to |-> r.issued_to, tag |-> r.tag,
    is_one_time |-> r.is_one_time, issued_at |-> r.issued_at,
    expires_at |-> r.expires_at, used_count |-> r.used_count,
    last_used_at |-> r.last_used_at, is_revoked |-> r.is_revoked ]

\* ORDER BY id DESC
RECURSIVE OrderByIdDesc(_)
OrderByIdDesc(rows) ==
  IF rows = {} THEN <<>>
  ELSE LET top == CHOOSE r \in rows : \A o \in rows : o.id <= r.id
       IN  <<ListedColumns(top)>> \o OrderByIdDesc(rows \ {top})

List(p) ==
  /\ Start(p)
  /\ Return(p, [op |-> "list"], OrderByIdDesc(access_keys))
  /\ UNCHANGED << access_keys, sqlite_sequence, writer, pending, now, audit >>
  /\ UNCHANGED session_state

(***************************************************************************)
(* Specifications.  Spec interleaves the statements of concurrent script   *)
(* runs; SeqSpec runs one call at a time.                                  *)
(***************************************************************************)
Ids == 1..MaxSeq
Times == 0..MaxTime

Racing == calls < MaxRaceCalls

\* _verify_and_mark_usage called for a session that is not followed further
NoSession == UNCHANGED session_state

Next ==
  \/ \E p \in Procs, raw_key \in KnownKeyInputs :
       Racing /\ verify_and_mark_usage_select(p, raw_key) /\ NoSession
  \/ \E p \in Procs, t \in Times : verify_and_mark_usage_expiry(p, t) /\ NoSession
  \/ \E p \in Procs, t \in Times : verify_and_mark_usage_update(p, t) /\ NoSession
  \/ \E p \in Procs, target_id \in Ids, action \in Actions :
       Racing /\ operate_key_select(p, target_id, action)
  \/ \E p \in Procs : operate_key_apply(p)
  \/ \E p \in Procs, count \in 1..MaxCount, days \in 0..MaxDays,
        is_one_time \in BOOLEAN, note \in Annotations, t \in Times :
       Racing /\ issue_keys_begin(p, count, days, is_one_time, note, t)
  \/ \E p \in Procs, draw \in KnownDraws, t \in Times : issue_keys_unit(p, draw, t)
  \/ \E p \in Procs : issue_keys_commit(p)
  \/ \E p \in Procs : Racing /\ List(p)

Spec == Init /\ [][Next]_vars

Alone(p) == \A q \in Procs \ {p} : pc[q] = "idle"

SeqNext ==
  \/ \E p \in Procs, raw_key \in KnownKeyInputs :
       Alone(p) /\ verify_and_mark_usage_select(p, raw_key) /\ NoSession
  \/ \E p \in Procs, t \in Times :
       Alone(p) /\ verify_and_mark_usage_expiry(p, t) /\ NoSession
  \/ \E p \in Procs, t \in Times :
       Alone(p) /\ verify_and_mark_usage_update(p, t) /\ NoSession
  \/ \E p \in Procs, target_id \in Ids, action \in Actions :
       Alone(p) /\ operate_key_select(p, target_id, action)
  \/ \E p \in Procs : Alone(p) /\ operate_key_apply(p)
  \/ \E p \in Procs, count \in 1..MaxCount, days \in 0..MaxDays,
        is_one_time \in BOOLEAN, note \in Annotations, t \in Times :
       Alone(p) /\ issue_keys_begin(p, count, days, is_one_time, note, t)
  \/ \E p \in Procs, draw \in KnownDraws, t \in Times :
       Alone(p) /\ issue_keys_unit(p, draw, t)
  \/ \E p \in Procs : Alone(p) /\ issue_keys_commit(p)
  \/ \E p \in Procs : Alone(p) /\ List(p)

SeqSpec == Init /\ [][SeqNext]_vars

(***************************************************************************)
(* _generate_readable_key on its own: KeySpec calls it with draws that     *)
(* bring up every symbol of the alphabet in every position.                *)
(***************************************************************************)
\* sixteen secrets.choice draws: from symbol a on, every b-th symbol
Stride(a, b) == [i \in 1..16 |-> ((a + i * b) % Len(alphabet)) + 1]
StrideDraws == { Stride(a, b) : a \in 0..(Len(alphabet) - 1), b \in 0..MaxStride }

generate_readable_key_call(draw) ==
  /\ ret' = [op |-> "generate", value |-> generate_readable_key(draw)]
  /\ UNCHANGED << access_keys, sqlite_sequence, writer, pending, now, pc, loc, audit,
                  calls >>
  /\ UNCHANGED session_state

KeyNext == \E draw \in StrideDraws : generate_readable_key_call(draw)

KeySpec == Init /\ [][KeyNext]_vars

(***************************************************************************)
(* key_gate_ui (lines 56-88): the gate of a session.  GateSpec follows the *)
(* sessions of the script runs over their reruns, one call at a time,      *)
(* next to the calls of the administrator.                                 *)
(***************************************************************************)
\* lines 67-69: the flag is set when the verification said ok
SetAuthenticatedAlways(state, p, ok) == [state EXCEPT ![p].is_authenticated = TRUE]
SetAuthenticated(state, p, ok) ==
  IF ok THEN [state EXCEPT ![p].is_authenticated = TRUE] ELSE state

\* lines 58-59: an authenticated session passes, nothing is read or written
key_gate_ui_authenticated(p) ==
  /\ Start(p)
  /\ session_state[p].is_authenticated
  /\ Return(p, [op |-> "gate"], TRUE)
  /\ UNCHANGED << access_keys, sqlite_sequence, writer, pending, now, audit,
                  session_state >>

\* lines 58-65, 74-88: the form is shown, the button was not pressed
key_gate_ui_form(p) ==
  /\ Start(p)
  /\ ~session_state[p].is_authenticated
  /\ Return(p, [op |-> "gate"], FALSE)
  /\ UNCHANGED << access_keys, sqlite_sequence, writer, pending, now, audit,
                  session_state >>

\* lines 58-66: the button was pressed, _verify_and_mark_usage runs to the
\* SELECT; a rejection there only shows the message (lines 71-72, 88)
key_gate_ui_submit(p, key_input) ==
  /\ ~session_state[p].is_authenticated
  /\ verify_and_mark_usage_select(p, key_input)
  /\ session_state' = SetAuthenticated(session_state, p,
                                       ret'.op = "verify" /\ ret'.value.ok)

\* line 66, _verify_and_mark_usage at its expiry check
key_gate_ui_expiry(p, t) ==
  /\ verify_and_mark_usage_expiry(p, t)
  /\ session_state' = SetAuthenticated(session_state, p,
                                       ret'.op = "verify" /\ ret'.value.ok)

\* lines 66-72: _verify_and_mark_usage returns from its UPDATE, the flag
\* follows its verdict
key_gate_ui_verified(p, t) ==
  /\ verify_and_mark_usage_update(p, t)
  /\ session_state' = SetAuthenticated(session_state, p, ret'.value.ok)

GateNext ==
  \/ \E p \in Procs : Alone(p) /\ key_gate_ui_authenticated(p)
  \/ \E p \in Procs : Alone(p) /\ key_gate_ui_form(p)
  \/ \E p \in Procs, key_input \in KnownKeyInputs :
       Alone(p) /\ key_gate_ui_submit(p, key_input)
  \/ \E p \in Procs, t \in Times : Alone(p) /\ key_gate_ui_expiry(p, t)
  \/ \E p \in Procs, t \in Times : Alone(p) /\ key_gate_ui_verified(p, t)
  \/ \E p \in Procs, target_id \in Ids, action \in Actions :
       Alone(p) /\ operate_key_select(p, target_id, action)
  \/ \E p \in Procs : Alone(p) /\ operate_key_apply(p)
  \/ \E p \in Procs, count \in 1..MaxCount, days \in 0..MaxDays,
        is_one_time \in BOOLEAN, note \in Annotations, t \in Times :
       Alone(p) /\ issue_keys_begin(p, count, days, is_one_time, note, t)
  \/ \E p \in Procs, draw \in KnownDraws, t \in Times :
       Alone(p) /\ issue_keys_unit(p, draw, t)
  \/ \E p \in Procs : Alone(p) /\ issue_keys_commit(p)

GateSpec == Init /\ [][GateNext]_vars

(***************************************************************************)
(* Properties.  ret holds the call that returned in the last step: its     *)
(* locals (ret.call), among them the history taken when it read the table, *)
(* and its return value (ret.value).                                       *)
(***************************************************************************)
Accepted == VerifyResult(TRUE, MsgOK)
Rejected(reason) == VerifyResult(FALSE, reason)

\* the history record of the row that holds the key presented to call c
MatchId(c) ==
  CHOOSE i \in DOMAIN c.hist : c.hist[i].raw = c.raw_key /\ ~c.hist[i].deleted
Matched(c) == c.hist[MatchId(c)]
\* that row, as the table held it when c read it
PreRow(c) == CHOOSE r \in c.pre : r.id = MatchId(c)

NotExpired(a, t) == a.expires = None \/ t <= Val(a.expires)

\* C1: concurrent verifications of one one-time key: at most one of them
\* returns Accepted (the others AlreadyUsed), however their SELECT and UPDATE
\* steps interleave.
C1_AtMostOneAccepted ==
  \A i \in DOMAIN audit : audit[i].one_time => audit[i].accepted <= 1

\* C2: one call at a time, a one-time key that is neither revoked nor expired
\* is Accepted by the first verification and AlreadyUsed by every later one.
C2_OneTimeLaw ==
  (ret.op = "verify" /\ ret.call.live) =>
    LET c == ret.call
        a == Matched(c)
    IN  (a.one_time /\ a.admin # ActRevoke /\ NotExpired(a, c.at)) =>
          ret.value = IF a.accepted = 0 THEN Accepted ELSE Rejected(MsgUsed)

C2_Witness ==
  /\ ret.op = "verify"
  /\ ret.call.live
  /\ Matched(ret.call).one_time
  /\ Matched(ret.call).accepted = 1
  /\ ret.value = Rejected(MsgUsed)

\* C3: a multi-use key is Accepted by every verification, whatever the number
\* of earlier uses, while it is not revoked, deleted or expired.
C3_MultiUseAlwaysAccepted ==
  (ret.op = "verify" /\ ret.call.live) =>
    LET c == ret.call
        a == Matched(c)
    IN  (~a.one_time /\ a.admin # ActRevoke /\ NotExpired(a, c.at)) =>
          ret.value = Accepted

C3_Witness ==
  /\ ret.op = "verify"
  /\ ret.call.live
  /\ ~Matched(ret.call).one_time
  /\ Matched(ret.call).accepted >= 1
  /\ PreRow(ret.call).used_count >= 1
  /\ ret.value = Accepted

\* the verdict the table at call time and the clock decide, by precedence
Verdict(c) ==
  IF c.raw_key = <<>> THEN Rejected(MsgEmpty)
  ELSE IF ~\E r \in c.pre : c.hist[r.id].raw = c.raw_key THEN Rejected(MsgInvalid)
  ELSE LET r == CHOOSE x \in c.pre : c.hist[x.id].raw = c.raw_key
       IN  IF r.is_revoked = 1 THEN Rejected(MsgRevoked)
           ELSE IF r.expires_at # None /\ c.at > ConvertTimestamp(Val(r.expires_at))
           THEN Rejected(MsgExpired)
           ELSE IF r.is_one_time = 1 /\ r.used_count >= 1 THEN Rejected(MsgUsed)
           ELSE Accepted

\* C4: one call at a time, the result of a verification is this function of
\* the table at call time: EmptyInput, then InvalidCredential, then Revoked,
\* then Expired, then AlreadyUsed, else Accepted.
C4_VerdictByPrecedence ==
  ret.op = "verify" => ret.value = Verdict(ret.call)

\* a revoked row that is also used up and past its expiry is Revoked
C4_Witness ==
  /\ ret.op = "verify"
  /\ ret.call.live
  /\ ret.value = Rejected(MsgRevoked)
  /\ PreRow(ret.call).is_one_time = 1
  /\ PreRow(ret.call).used_count >= 1
  /\ Matched(ret.call).expires # None
  /\ now > Val(Matched(ret.call).expires)

\* C5: after a revoke returned OK every verification is Revoked; after a
\* reinstate of the revoked row returned OK it is Accepted again, unless the
\* key is expired or a used one-time key.
C5_RevokeThenReinstate ==
  (ret.op = "verify" /\ ret.call.live) =>
    LET c == ret.call
        a == Matched(c)
    IN  /\ a.admin = ActRevoke => ret.value = Rejected(MsgRevoked)
        /\ ( /\ a.admin = ActReinstate
             /\ NotExpired(a, c.at)
             /\ ~(a.one_time /\ PreRow(c).used_count >= 1) ) => ret.value = Accepted

C5_Witness ==
  /\ ret.op = "verify"
  /\ ret.call.live
  /\ Matched(ret.call).admin = ActReinstate
  /\ ret.value = Accepted

\* C6: an otherwise valid key with expires_at = E is Expired when the clock
\* reads later than E and Accepted when it reads E or earlier; a key without
\* expires_at is never Expired.
C6_ExpiryIsStrict ==
  (ret.op = "verify" /\ ret.call.live) =>
    LET c == ret.call
        a == Matched(c)
        otherwise_valid == ~(a.one_time /\ PreRow(c).used_count >= 1)
    IN  a.admin # ActRevoke =>
          /\ a.expires = None => ret.value.msg # MsgExpired
          /\ (a.expires # None /\ c.at > Val(a.expires)) =>
               ret.value = Rejected(MsgExpired)
          /\ (a.expires # None /\ c.at <= Val(a.expires) /\ otherwise_valid) =>
               ret.value = Accepted

\* the clock reads exactly E
C6_Witness ==
  /\ ret.op = "verify"
  /\ ret.call.live
  /\ Matched(ret.call).expires = Some(ret.call.at)
  /\ ret.value = Accepted

\* C7, as claimed: once the delete of a row returned OK, every verification
\* of its key that starts afterwards returns InvalidCredential.
C7_DeletedKeyAlwaysInvalid ==
  (ret.op = "verify" /\ ret.call.deleted) => ret.value = Rejected(MsgInvalid)

\* C7, amended: a deleted row is in no later listing and never comes back, and
\* a verification of its key that starts afterwards returns InvalidCredential
\* unless an issue call has generated the same key again since.
C7_DeleteIsIrreversible ==
  /\ \A i \in DOMAIN audit :
       audit[i].deleted => \A r \in access_keys \cup pending : r.id # i
  /\ ret.op = "list" =>
       \A k \in 1..Len(ret.value) : ~audit[ret.value[k].id].deleted
  /\ (ret.op = "verify" /\ ret.call.deleted /\ ~ret.call.live) =>
       ret.value = Rejected(MsgInvalid)

C7_Witness ==
  /\ ret.op = "verify"
  /\ ret.call.deleted
  /\ ~ret.call.live
  /\ ret.value = Rejected(MsgInvalid)

\* C8: a key that belongs to no row gets the same answer, InvalidCredential,
\* and leaves the same table whether it was never issued or was issued and
\* deleted.
C8_UnknownKeysAlike ==
  (ret.op = "verify" /\ ret.call.raw_key # <<>> /\ ~ret.call.live) =>
    /\ ret.value = Rejected(MsgInvalid)
    /\ access_keys = ret.call.pre
    /\ audit = ret.call.hist

\* a never-issued key is refused in a history that also deleted a key
C8_Witness ==
  /\ ret.op = "verify"
  /\ ret.call.raw_key # <<>>
  /\ ~ret.call.issued
  /\ DeletedKeys # {}
  /\ ret.value = Rejected(MsgInvalid)

\* C9: an issue call with count = N returns at most N keys, each the key of
\* exactly one row of the table, and it added as many rows as it returned.
C9_IssuedKeysAreStored ==
  ret.op = "issue" =>
    LET v == ret.value
    IN  /\ Len(v) <= ret.call.count
        /\ \A k \in 1..Len(v) :
             /\ Cardinality({ r \in access_keys :
                                r.key_hash = hash_key(v[k].access_key) }) = 1
             /\ Cardinality({ r \in access_keys :
                                audit[r.id].raw = v[k].access_key }) = 1
        /\ ret.call.added = Len(v)

\* a unit was skipped: fewer keys than asked for
C9_Witness ==
  /\ ret.op = "issue"
  /\ ret.call.count = 2
  /\ Len(ret.value) = 1

Plaintexts == { generate_readable_key(d) : d \in Draws }
TextOf(o) == IF o = None THEN <<>> ELSE Val(o)
NoPlaintext(text) ==
  /\ text \notin Plaintexts
  /\ Len(text) < 19

\* C10: no text column of any row holds a key: key_hash holds the digest and
\* raw_hint three characters of each end; verify, the listing and the
\* administrator's actions return no key.
C10_NoPlaintextAtRest ==
  /\ \A r \in access_keys \cup pending :
       /\ NoPlaintext(r.key_hash)
       /\ NoPlaintext(r.raw_hint)
       /\ NoPlaintext(TextOf(r.issued_to))
       /\ NoPlaintext(TextOf(r.tag))
       /\ Len(r.raw_hint) = 7
  /\ ret.op = "verify" =>
       /\ DOMAIN ret.value = {"ok", "msg"}
       /\ ret.value.msg \in
            {MsgEmpty, MsgInvalid, MsgRevoked, MsgExpired, MsgUsed, MsgOK}
  /\ ret.op = "operate" => ret.value \in {MsgNotFound, MsgUnknown, MsgApplied}
  /\ ret.op = "list" =>
       \A k \in 1..Len(ret.value) :
         /\ "key_hash" \notin DOMAIN ret.value[k]
         /\ NoPlaintext(ret.value[k].raw_hint)
         /\ NoPlaintext(TextOf(ret.value[k].issued_to))
         /\ NoPlaintext(TextOf(ret.value[k].tag))

\* rows are listed while an issue call holds uncommitted rows
C10_Witness ==
  /\ ret.op = "list"
  /\ Len(ret.value) >= 1
  /\ pending # {}

\* the rows a connection can see: the committed ones and the writer's own
Stored == access_keys \cup pending

\* C11: no two rows share a key_hash, also while issue calls run concurrently,
\* and no step changes the key_hash of a row that stays in the table.
C11_HashUniqueAndFrozen ==
  [][ /\ \A r1, r2 \in Stored' : r1.key_hash = r2.key_hash => r1 = r2
      /\ \A r1 \in Stored, r2 \in Stored' : r1.id = r2.id => r1.key_hash = r2.key_hash
    ]_vars

\* an issue call holds uncommitted rows while another one is in its loop
C11_Witness ==
  /\ pending # {}
  /\ \E q \in Procs \ {writer} : pc[q] = "issue_loop" /\ loc[q].remaining > 0

\* the keys of the returned table, in order
ReturnedKeys(v) == [k \in 1..Len(v) |-> v[k].access_key]

C13_UsedCountNeverDecreases ==
  [][ \A r2 \in Stored' :
        IF \E r1 \in Stored : r1.id = r2.id
        THEN \A r1 \in Stored : r1.id = r2.id => r1.used_count <= r2.used_count
        ELSE r2.used_count = 0
    ]_vars

\* a used row was reinstated
C13_Witness ==
  /\ ret.op = "operate"
  /\ ret.call.action = ActReinstate
  /\ ret.value = MsgApplied
  /\ \E r \in access_keys : r.id = ret.call.target_id /\ r.used_count >= 1

\* the step is the return of a verification of row id with one of results
Verified(id, results) ==
  /\ ret'.op = "verify"
  /\ ret'.value \in results
  /\ Val(ret'.call.row).key_id = id

\* last_used_at is absent in a new row, and the only steps that change it are
\* the returns of verifications of that row with one of results, which set it
\* to the time of that verification
LastUsedAtFollows(results) ==
  \A r2 \in Stored' :
    IF \E r1 \in Stored : r1.id = r2.id
    THEN IF Verified(r2.id, results)
         THEN r2.last_used_at = Some(AdaptDatetime(Val(ret'.call.used_at)))
         ELSE \A r1 \in Stored : r1.id = r2.id => r2.last_used_at = r1.last_used_at
    ELSE r2.last_used_at = None

\* C14, as claimed: last_used_at is absent until the first Accepted
\* verification of the row and is the time of its latest Accepted verification
\* afterwards; a Rejected verification leaves it as it is.
C14_LastUsedAtIsLastAccepted ==
  [][ LastUsedAtFollows({Accepted}) ]_vars

\* C14, amended: last_used_at is absent until the first verification of the
\* row that passes the revoked and expiry checks and is the time of the latest
\* such verification afterwards, whether it returned Accepted or AlreadyUsed;
\* a verification rejected as EmptyInput, InvalidCredential, Revoked or
\* Expired leaves it as it is.
C14_LastUsedAtIsLastRecorded ==
  [][ LastUsedAtFollows({Accepted, Rejected(MsgUsed)}) ]_vars

\* a verification returned AlreadyUsed later than the Accepted one
C14_Witness ==
  /\ ret.op = "verify"
  /\ ret.value = Rejected(MsgUsed)
  /\ Val(ret.call.used_at) > 0
  /\ \E r \in ret.call.pre :
       /\ r.id = Val(ret.call.row).key_id
       /\ r.last_used_at = Some(AdaptDatetime(0))
  /\ \E r \in access_keys :
       /\ r.id = Val(ret.call.row).key_id
       /\ r.last_used_at = Some(AdaptDatetime(Val(ret.call.used_at)))

\* C15: a row leaves the table only in the step in which a delete of its own
\* id returns OK; no step of verify, issue, revoke or reinstate and no reading
\* of the clock removes a row, and the listing shows every row of the table,
\* expired, used and revoked ones included.
C15_RemovedOnlyByDelete ==
  [][ /\ \A r \in Stored :
           (\A r2 \in Stored' : r2.id # r.id) =>
             /\ ret'.op = "operate"
             /\ ret'.call.action = ActDelete
             /\ ret'.call.target_id = r.id
             /\ ret'.value = MsgApplied
      /\ ret'.op = "list" =>
           { ret'.value[k].id : k \in 1..Len(ret'.value) } =
             { r.id : r \in access_keys' }
    ]_vars

\* the listing shows a one-time row that is used and past its expiry
C15_Witness ==
  /\ ret.op = "list"
  /\ \E k \in 1..Len(ret.value) :
       /\ ret.value[k].is_one_time = 1
       /\ ret.value[k].used_count >= 1
       /\ ret.value[k].expires_at # None
       /\ now > ConvertTimestamp(Val(ret.value[k].expires_at))

\* C16: ids are unique and grow in the order of creation over the whole
\* history, deleted rows included, so no id is handed out twice; a row keeps
\* the id it was created with.
C16_IdsIncrease ==
  /\ \A i, j \in DOMAIN audit : i < j => audit[i].id < audit[j].id
  /\ \A r1, r2 \in Stored : r1.id = r2.id => r1 = r2
  /\ \A r \in Stored :
       \E i \in DOMAIN audit :
         /\ audit[i].id = r.id
         /\ Hint(audit[i].raw) = r.raw_hint
         /\ ~audit[i].deleted
  /\ \A i \in DOMAIN audit :
       ~audit[i].deleted =>
         \E r \in Stored : r.raw_hint = Hint(audit[i].raw) /\ r.id = audit[i].id

\* a row was inserted after the row with the largest id had been deleted
C16_Witness ==
  /\ Len(audit) = 2
  /\ audit[1].deleted
  /\ \E r \in access_keys : r.id = audit[2].id
  /\ Cardinality(access_keys) = 1

\* C17: a revoke, reinstate or delete of an id that no row of the table has
\* when the call looks it up returns NotFound and changes nothing: the calls
\* that go on to their UPDATE or DELETE found a row, and the calls that return
\* from the lookup return NotFound for a missing id and leave the store as it
\* was.
C17_MissingIdIsNotFound ==
  [][ /\ \A p \in Procs :
           (pc[p] = "idle" /\ pc'[p] = "operate_apply") =>
             \E r \in access_keys : r.id = loc'[p].target_id
      /\ (calls' # calls /\ ret'.op = "operate") =>
           /\ \A r \in access_keys : r.id # ret'.call.target_id
           /\ ret'.value = MsgNotFound
           /\ access_keys' = access_keys
           /\ pending' = pending
           /\ sqlite_sequence' = sqlite_sequence
    ]_vars

\* the id of a deleted row is looked up while the table holds another row
C17_Witness ==
  /\ ret.op = "operate"
  /\ ret.value = MsgNotFound
  /\ ret.call.target_id \in DOMAIN audit
  /\ audit[ret.call.target_id].deleted
  /\ access_keys # {}

\* the table differs from rows in nothing but the is_revoked of row id
OnlyFlagDiffers(rows, id) ==
  /\ { r \in access_keys : r.id # id } = { r \in rows : r.id # id }
  /\ { [r EXCEPT !.is_revoked = 0] : r \in { x \in access_keys : x.id = id } } =
       { [r EXCEPT !.is_revoked = 0] : r \in { x \in rows : x.id = id } }

\* C18: one call at a time, a revoke sets is_revoked of its row and a
\* reinstate clears it, and neither changes anything else; the same action
\* again changes nothing; a reinstate right after the revoke of a row that was
\* not revoked gives back the table as it was before the revoke; a used
\* one-time key that was revoked and reinstated is still AlreadyUsed.
C18_RevokeReinstateAlgebra ==
  /\ (ret.op = "operate" /\ ret.value = MsgApplied /\ ret.call.action # ActDelete) =>
       LET c == ret.call
           flag == IF c.action = ActRevoke THEN 1 ELSE 0
       IN  /\ OnlyFlagDiffers(c.pre, c.target_id)
           /\ \A r \in access_keys : r.id = c.target_id => r.is_revoked = flag
           /\ ( /\ c.prev # None
                /\ Val(c.prev).target_id = c.target_id
                /\ Val(c.prev).action = c.action ) => access_keys = c.pre
           /\ ( /\ c.prev # None
                /\ Val(c.prev).target_id = c.target_id
                /\ Val(c.prev).action = ActRevoke
                /\ c.action = ActReinstate
                /\ \A r \in Val(c.prev).pre : r.id = c.target_id => r.is_revoked = 0
              ) => access_keys = Val(c.prev).pre
  /\ (ret.op = "verify" /\ ret.call.live) =>
       LET c == ret.call
           a == Matched(c)
       IN  ( /\ a.admin = ActReinstate
             /\ a.one_time
             /\ PreRow(c).used_count >= 1
             /\ NotExpired(a, c.at) ) => ret.value = Rejected(MsgUsed)

\* a reinstate right after the revoke of a used row
C18_Witness ==
  /\ ret.op = "operate"
  /\ ret.call.action = ActReinstate
  /\ ret.call.prev # None
  /\ Val(ret.call.prev).action = ActRevoke
  /\ Val(ret.call.prev).target_id = ret.call.target_id
  /\ \E r \in access_keys : r.id = ret.call.target_id /\ r.used_count >= 1

\* the positions of the dashes, and the symbols generated keys are made of
DashAt == {5, 10, 15}
KeySymbols ==
  UNION { { generate_readable_key(d)[k] : k \in (1..19) \ DashAt } : d \in StrideDraws }

\* four groups of four symbols, dashes between them; the symbols are size
\* many and none of them is I, O, 0 or 1
WellFormed(key, size) ==
  /\ Len(key) = 19
  /\ \A k \in 1..19 : key[k] = "-" <=> k \in DashAt
  /\ \A k \in (1..19) \ DashAt : key[k] \in KeySymbols
  /\ Cardinality(KeySymbols) = size
  /\ KeySymbols \cap {"I", "O", "0", "1"} = {}

\* C19, as claimed: a generated key is four dash-separated groups of four
\* characters, drawn from an alphabet of exactly 33 symbols without I, O, 0, 1.
C19_KeyFormatOf33 ==
  ret.op = "generate" => WellFormed(ret.value, 33)

\* C19, amended: a generated key is four dash-separated groups of four
\* characters (19 characters, dashes at positions 5, 10 and 15), drawn from an
\* alphabet of exactly 32 symbols without I, O, 0, 1.
C19_KeyFormatOf32 ==
  ret.op = "generate" => WellFormed(ret.value, 32)

\* a key that starts with the last symbol of the alphabet and goes on with the
\* first one
C19_Witness ==
  /\ ret.op = "generate"
  /\ ret.value[1] = "9"
  /\ ret.value[2] = "A"
  /\ ret.value[19] = "Q"

\* the history record of row r
Origin(r) == audit[CHOOSE i \in DOMAIN audit : audit[i].id = r.id]
IssuedAt(r) == ConvertTimestamp(Val(r.issued_at))

\* C20, as claimed: a row issued with days = 0 has no expires_at; a row issued
\* with days = d > 0 has expires_at = its own issued_at + d days.
C20_ExpiresAtFromIssuedAt ==
  \A r \in Stored :
    IF Origin(r).days = 0
    THEN r.expires_at = None
    ELSE r.expires_at = Some(AdaptDatetime(IssuedAt(r) + Timedelta(Origin(r).days)))

\* C20, amended: a row issued with days = 0 has no expires_at; a row issued
\* with days = d > 0 has expires_at = the time the call read before its first
\* unit + d days, the same for every unit of the call, and its issued_at, read
\* at its INSERT, is not earlier than that time.
C20_ExpiresAtFromCallTime ==
  /\ \A r \in Stored :
       IF Origin(r).days = 0
       THEN r.expires_at = None
       ELSE /\ r.expires_at =
                 Some(AdaptDatetime(Val(Origin(r).start) + Timedelta(Origin(r).days)))
            /\ ConvertTimestamp(Val(r.expires_at)) <=
                 IssuedAt(r) + Timedelta(Origin(r).days)
  /\ ret.op = "issue" =>
       \A k \in 1..Len(ret.value) :
         /\ ret.value[k].expires_at = AdaptOptional(ret.call.expires_at)
         /\ \E r \in access_keys :
              /\ r.raw_hint = ret.value[k].hint
              /\ r.expires_at = ret.value[k].expires_at

\* a call issued two rows with an expiry, the second one later than the first
C20_Witness ==
  /\ ret.op = "issue"
  /\ ret.call.days = 1
  /\ Len(ret.value) = 2
  /\ \E r1, r2 \in access_keys :
       /\ IssuedAt(r1) < IssuedAt(r2)
       /\ r1.expires_at = r2.expires_at
       /\ r1.expires_at # None

(***************************************************************************)
(* Usage accounting.                                                       *)
(***************************************************************************)
\* C21: the used_count of a record in the table is the number of verify calls
\* that passed its revoked and expiry checks, whatever they returned and
\* however they interleaved: each of them adds exactly 1, nothing else
\* changes the counter, no increment is lost
C21_UsedCountIsPassedChecks ==
  \A r \in access_keys : r.used_count = audit[r.id].passed

\* two verifications of one record, both past the SELECT before either
\* UPDATE, have both been counted
C21_Witness ==
  /\ ret.op = "verify"
  /\ ret.call.used_at # None
  /\ Val(ret.call.row).used_count = 0
  /\ \E r \in access_keys :
       /\ r.id = Val(ret.call.row).key_id
       /\ r.used_count = 2
       /\ audit[r.id].passed = 2

\* C22: a verify call that returns Accepted has run its usage UPDATE on a
\* record that was in the table and not revoked at that moment, and the
\* UPDATE has counted the call on it -- also when a delete or revoke of the
\* same id runs between the SELECT and the UPDATE of the call
C22_AcceptedOnLiveRecord ==
  (ret.op = "verify" /\ ret.value = Accepted) =>
    \E r \in access_keys :
      /\ r.id = Val(ret.call.row).key_id
      /\ r.is_revoked = 0
      /\ r.used_count > Val(ret.call.row).used_count
      /\ r.last_used_at = Some(AdaptDatetime(Val(ret.call.used_at)))

\* C23: an administrative call returns OK only if the record of its id was in
\* the table when its UPDATE or DELETE ran, so that the statement changed a
\* row -- also when another administrative call on the same id runs between
\* the existence check and the statement
C23_OkOnlyOnExistingRecord ==
  (ret.op = "operate" /\ ret.value = MsgApplied) =>
    \E r \in ret.call.pre : r.id = ret.call.target_id

(***************************************************************************)
(* The frame of a verification.                                            *)
(***************************************************************************)
\* a step of a verify call: its return, or its move to the next position
VerifyStep ==
  \/ ret'.op = "verify"
  \/ \E p \in Procs : /\ pc'[p] # pc[p]
                       /\ pc'[p] \in {"verify_expiry", "verify_update"}

UsageOnly(r1, r2) ==
  r2 = [r1 EXCEPT !.used_count = r2.used_count, !.last_used_at = r2.last_used_at]

\* C24: a verify call that returns EmptyInput, InvalidCredential, Revoked or
\* Expired leaves the whole store as it was; of the rejections only
\* AlreadyUsed writes; and whatever a verify call returns, it changes at most
\* used_count and last_used_at of the one record it matched
C24_VerifyFrame ==
  [][ VerifyStep =>
        /\ pending' = pending
        /\ sqlite_sequence' = sqlite_sequence
        /\ { r.id : r \in access_keys' } = { r.id : r \in access_keys }
        /\ \A r1 \in access_keys : \A r2 \in access_keys' :
             r1.id = r2.id =>
               \/ r2 = r1
               \/ /\ ret'.op = "verify"
                  /\ ret'.call.row # None
                  /\ r1.id = Val(ret'.call.row).key_id
                  /\ UsageOnly(r1, r2)
        /\ access_keys' # access_keys =>
             /\ ret'.op = "verify"
             /\ ret'.value \in {Accepted, Rejected(MsgUsed)}
        /\ ( /\ ret'.op = "verify"
             /\ ret'.value = Rejected(MsgUsed)
             /\ \E r \in access_keys : r.id = Val(ret'.call.row).key_id )
             => access_keys' # access_keys
    ]_vars

\* a revoked key was presented while the table held two records, and the
\* table is as the call found it
C24_Witness ==
  /\ ret.op = "verify"
  /\ ret.value = Rejected(MsgRevoked)
  /\ Cardinality(access_keys) = 2
  /\ access_keys = ret.call.pre

(***************************************************************************)
(* The session gate.                                                       *)
(***************************************************************************)
StoreUnchanged ==
  /\ access_keys' = access_keys
  /\ pending' = pending
  /\ sqlite_sequence' = sqlite_sequence

\* a step of _verify_and_mark_usage in the script run p
VerifyStepOf(p) ==
  \/ ret'.op = "verify" /\ ret'.proc = p
  \/ pc'[p] # pc[p] /\ pc'[p] \in {"verify_expiry", "verify_update"}

\* C25: is_authenticated of a session is set only by a step in which a
\* verification of that session returns Accepted, a rejected verification
\* sets no flag, a set flag is never cleared, and for a session whose flag
\* is set the gate returns True without a step of _verify_and_mark_usage and
\* without a change of the store -- whatever has happened to its key since
C25_GateFollowsAccepted ==
  [][ \A p \in Procs :
        /\ ( /\ session_state'[p].is_authenticated
             /\ ~session_state[p].is_authenticated )
             => /\ ret'.op = "verify"
                /\ ret'.proc = p
                /\ ret'.value = Accepted
        /\ (ret'.op = "verify" /\ ~ret'.value.ok) => session_state' = session_state
        /\ session_state[p].is_authenticated =>
             /\ session_state'[p].is_authenticated
             /\ ~VerifyStepOf(p)
             /\ (ret'.op = "gate" /\ ret'.proc = p) =>
                  ret'.value = TRUE /\ StoreUnchanged
    ]_vars

\* the gate has let a session pass whose key was accepted once and deleted
\* afterwards
C25_Witness ==
  /\ ret.op = "gate"
  /\ ret.value = TRUE
  /\ session_state[ret.proc].is_authenticated
  /\ \A r \in access_keys : r.used_count = 0
  /\ \E i \in DOMAIN audit : audit[i].accepted = 1 /\ audit[i].deleted

====
